---- MODULE Spec2Model ----
(***************************************************************************)
(* eval-harness: loader, judge routing, scoring and evaluation.            *)
(*                                                                         *)
(* Python strings whose characters the code inspects (startswith, strip)   *)
(* are sequences of one-character strings; strings the code only copies    *)
(* are TLA+ strings.  An optional value (None or a value) is a sequence    *)
(* of length 0 or 1.                                                       *)
(***************************************************************************)
EXTENDS Integers, Sequences, FiniteSets, TLC

VARIABLES
    example,            \* evaluate_example: the example argument
    config,             \* evaluate_example: the config argument
    judge,              \* the judge service: <<J>> if it answers each prompt by the
                        \* fixed outcome J[prompt], <<>> if it may answer anything
    epc,                \* evaluate_example: position in the function body
    response_provider,  \* evaluator.py:51 (<<>> until assigned)
    judge_provider,     \* evaluator.py:52
    judge_model,        \* evaluator.py:53
    relevance,          \* evaluator.py:58/63 (<<>> until assigned)
    tone,               \* evaluator.py:59/64
    calls,              \* judge backend invocations, in order
    replies,            \* what each invocation produced, in order
    result,             \* the EvalResult returned (<<>> if none)
    exc,                \* the exception propagated to the caller (<<>> if none)
    data,               \* load_examples: the parsed JSON input
    lpc,                \* load_examples: "start" or "done"
    examples,           \* LoadResult.examples
    skipped,            \* LoadResult.skipped
    lexc,               \* the exception load_examples raised (<<>> if none)
    mpc,                \* main: position in the function body
    cur,                \* main: number of the example being evaluated (0: none)
    eval_log,           \* how each iteration of main's loop ended, in order
    results,            \* main.py:52 results
    groups,             \* compute_aggregates: by_model, by_prompt, by_combo (<<>> until built)
    agg_calls,          \* the argument of each compute_aggregates call so far, as
                        \* it is after the call, in order
    aggregates,         \* main.py:64 aggregates (<<>> until assigned)
    output,             \* the document in the output file (<<>> if not written)
    exit_status,        \* what main returned (<<>> if it has not returned)
    mexc                \* the exception that left main (<<>> if none)

evars == <<example, config, judge, epc, response_provider, judge_provider, judge_model,
           relevance, tone, calls, replies, result, exc>>
lvars == <<data, lpc, examples, skipped, lexc>>
mvars == <<mpc, cur, eval_log, results, groups, agg_calls, aggregates, output,
           exit_status, mexc>>
vars == <<evars, lvars, mvars>>

\* main is not running
MainIdle ==
    /\ mpc = "idle"
    /\ cur = 0
    /\ eval_log = <<>>
    /\ results = <<>>
    /\ groups = <<>>
    /\ agg_calls = <<>>
    /\ aggregates = <<>>
    /\ output = <<>>
    /\ exit_status = <<>>
    /\ mexc = <<>>

(***************************************************************************)
(* Bounds                                                                  *)
(***************************************************************************)
MaxSuffixLen == 1   \* longest tail appended to a model-name prefix
MaxBatch == 2       \* longest input array made of the mixed items
MaxResults == 3     \* longest list of results handed to compute_aggregates
MaxScore == 7       \* largest integer score in a built judge reply
MaxCalls == 2       \* most compute_aggregates calls made one after the other

(***************************************************************************)
(* Strings                                                                 *)
(***************************************************************************)
RECURSIVE SeqsUpTo(_, _)
SeqsUpTo(S, n) ==
    IF n = 0 THEN {<<>>}
    ELSE LET shorter == SeqsUpTo(S, n - 1)
         IN  shorter \cup {Append(s, c) : s \in shorter, c \in S}

\* str.startswith(prefix)
StartsWith(s, p) == Len(p) <= Len(s) /\ SubSeq(s, 1, Len(p)) = p

\* str.startswith(tuple of prefixes)
StartsWithAny(s, ps) == \E i \in 1..Len(ps) : StartsWith(s, ps[i])

EndsWith(s, p) == Len(p) <= Len(s) /\ SubSeq(s, Len(s) - Len(p) + 1, Len(s)) = p

Whitespace == {" ", "\t", "\n"}

\* str.strip(): drop leading and trailing whitespace
RECURSIVE LStrip(_)
LStrip(s) == IF s # <<>> /\ Head(s) \in Whitespace THEN LStrip(Tail(s)) ELSE s

RECURSIVE RStrip(_)
RStrip(s) ==
    IF s # <<>> /\ s[Len(s)] \in Whitespace THEN RStrip(SubSeq(s, 1, Len(s) - 1)) ELSE s

Strip(s) == RStrip(LStrip(s))

(***************************************************************************)
(* config.py                                                               *)
(***************************************************************************)
GPT_ == <<"g", "p", "t", "-">>
O1_ == <<"o", "1", "-">>
CLAUDE_ == <<"c", "l", "a", "u", "d", "e", "-">>

\* f"Unknown model provider for: {model}"
UnknownProviderText ==
    <<"U", "n", "k", "n", "o", "w", "n", " ", "m", "o", "d", "e", "l", " ",
      "p", "r", "o", "v", "i", "d", "e", "r", " ", "f", "o", "r", ":", " ">>

\* the outcome of a call: a returned value (in v) or a raised exception
Returns(v) == [ok |-> TRUE, v |-> <<v>>, type |-> "", msg |-> <<>>]
Raises(type, msg) == [ok |-> FALSE, v |-> <<>>, type |-> type, msg |-> msg]

\* o1- names not recognised
get_provider_from_model_NoO1(model) ==
    IF StartsWith(model, GPT_) THEN Returns("openai")
    ELSE IF StartsWith(model, CLAUDE_) THEN Returns("anthropic")
    ELSE Raises("ValueError", UnknownProviderText \o model)

get_provider_from_model(model) ==
    IF StartsWithAny(model, <<GPT_, O1_>>) THEN Returns("openai")
    ELSE IF StartsWith(model, CLAUDE_) THEN Returns("anthropic")
    ELSE Raises("ValueError", UnknownProviderText \o model)

(***************************************************************************)
(* Python values and JSON text                                             *)
(*                                                                         *)
(* A judge reply is a sequence of JSON tokens.  json_loads covers scalars, *)
(* arrays of scalars and objects whose members are scalars; every reply    *)
(* the model sends is either inside this grammar or not JSON at all.       *)
(***************************************************************************)
Tok(k, n, s) == [k |-> k, n |-> n, s |-> s]
LBRACE == Tok("{", 0, "")
RBRACE == Tok("}", 0, "")
LBRACK == Tok("[", 0, "")
RBRACK == Tok("]", 0, "")
COLON == Tok(":", 0, "")
COMMA == Tok(",", 0, "")
TInt(n) == Tok("int", n, "")
TFloat(s) == Tok("float", 0, s)
TStr(s) == Tok("str", 0, s)
TNull == Tok("null", 0, "")
TTrue == Tok("true", 1, "")
TJunk(s) == Tok("junk", 0, s)

\* a Python scalar: its type, and its value in n (int, bool) or s (str, float)
PyVal(type, n, s) == [type |-> type, n |-> n, s |-> s]
\* a decoded JSON document; m holds the members of a dict
PyDoc(type, n, s, m) == [type |-> type, n |-> n, s |-> s, m |-> m]

IsScalarTok(t) == t.k \in {"int", "float", "str", "null", "true", "false"}

ScalarOf(t) ==
    CASE t.k = "int" -> PyVal("int", t.n, "")
      [] t.k = "float" -> PyVal("float", 0, t.s)
      [] t.k = "str" -> PyVal("str", 0, t.s)
      [] t.k = "null" -> PyVal("NoneType", 0, "")
      [] t.k \in {"true", "false"} -> PyVal("bool", t.n, "")

JSONDecodeError == Raises("JSONDecodeError", <<>>)

\* members of an object from token i on; a repeated key keeps its last value
RECURSIVE ParseMembers(_, _, _)
ParseMembers(t, i, m) ==
    IF i + 3 > Len(t) THEN JSONDecodeError
    ELSE IF t[i].k = "str" /\ t[i + 1].k = ":" /\ IsScalarTok(t[i + 2])
    THEN LET m2 == [k \in (DOMAIN m) \cup {t[i].s} |->
                        IF k = t[i].s THEN ScalarOf(t[i + 2]) ELSE m[k]]
         IN  IF t[i + 3].k = "}"
             THEN IF i + 3 = Len(t) THEN Returns(PyDoc("dict", 0, "", m2))
                  ELSE JSONDecodeError
             ELSE IF t[i + 3].k = "," THEN ParseMembers(t, i + 4, m2)
             ELSE JSONDecodeError
    ELSE JSONDecodeError

\* elements of an array from token i on
RECURSIVE ParseElements(_, _)
ParseElements(t, i) ==
    IF i + 1 > Len(t) THEN JSONDecodeError
    ELSE IF IsScalarTok(t[i])
    THEN IF t[i + 1].k = "]"
         THEN IF i + 1 = Len(t) THEN Returns(PyDoc("list", 0, "", <<>>))
              ELSE JSONDecodeError
         ELSE IF t[i + 1].k = "," THEN ParseElements(t, i + 2)
         ELSE JSONDecodeError
    ELSE JSONDecodeError

\* json.loads
json_loads(t) ==
    IF Len(t) = 0 THEN JSONDecodeError
    ELSE IF IsScalarTok(t[1])
    THEN IF Len(t) = 1
         THEN LET v == ScalarOf(t[1]) IN Returns(PyDoc(v.type, v.n, v.s, <<>>))
         ELSE JSONDecodeError
    ELSE IF t[1].k = "{"
    THEN IF Len(t) = 2 /\ t[2].k = "}" THEN Returns(PyDoc("dict", 0, "", <<>>))
         ELSE ParseMembers(t, 2, <<>>)
    ELSE IF t[1].k = "["
    THEN IF Len(t) = 2 /\ t[2].k = "]" THEN Returns(PyDoc("list", 0, "", <<>>))
         ELSE ParseElements(t, 2)
    ELSE JSONDecodeError

\* result.get(key): a missing key gives None
Subscript_Get(doc, key) ==
    IF doc.type # "dict" THEN Raises("TypeError", <<>>)
    ELSE IF key \notin DOMAIN doc.m THEN Returns(PyVal("NoneType", 0, ""))
    ELSE Returns(doc.m[key])

\* result[key] for a string key
Subscript(doc, key) ==
    IF doc.type # "dict" THEN Raises("TypeError", <<>>)
    ELSE IF key \notin DOMAIN doc.m THEN Raises("KeyError", <<>>)
    ELSE Returns(doc.m[key])

(***************************************************************************)
(* evaluator.py                                                            *)
(***************************************************************************)
\* an integer score forced into 1..5
Score_Clamped(score, reasoning) ==
    [score |-> IF score.type # "int" THEN score
               ELSE IF score.n < 1 THEN [score EXCEPT !.n = 1]
               ELSE IF score.n > 5 THEN [score EXCEPT !.n = 5]
               ELSE score,
     reasoning |-> reasoning]

Score(score, reasoning) == [score |-> score, reasoning |-> reasoning]

\* the two Scores stored under each other's name
EvalResult_Swapped(id, model, prompt_version, rel, ton) ==
    [id |-> id, model |-> model, prompt_version |-> prompt_version,
     relevance |-> ton, tone |-> rel]

EvalResult(id, model, prompt_version, rel, ton) ==
    [id |-> id, model |-> model, prompt_version |-> prompt_version,
     relevance |-> rel, tone |-> ton]

RELEVANCE_RUBRIC == "Rate the relevance of this support bot response on a 1-5 scale: ..."
TONE_RUBRIC == "Rate the tone of this support bot response on a 1-5 scale: ..."

\* the name of the generating model added to the prompt
_build_prompt_WithModel(ex, dimension, rubric) ==
    <<"You are evaluating a support bot response for ", dimension, ".",
      "TICKET:", ex.ticket, "RESPONSE:", ex.response, rubric,
      "Respond with JSON only: {\"score\": <1-5>, \"reasoning\": \"<brief explanation>\"}",
      ex.model>>

_build_prompt(ex, dimension, rubric) ==
    <<"You are evaluating a support bot response for ", dimension, ".",
      "TICKET:", ex.ticket, "RESPONSE:", ex.response, rubric,
      "Respond with JSON only: {\"score\": <1-5>, \"reasoning\": \"<brief explanation>\"}">>

\* what a judge backend does with one request: an API error or a text
APIError == [raised |-> TRUE, text |-> <<>>]
Reply(text) == [raised |-> FALSE, text |-> text]

\* the request of client.chat.completions.create
OpenAICall(ex, dimension, rubric, model) ==
    [backend |-> "openai", model |-> model, dimension |-> dimension,
     prompt |-> _build_prompt(ex, dimension, rubric),
     response_format |-> "json_object", max_tokens |-> 0]

\* the request of client.messages.create
AnthropicCall(ex, dimension, rubric, model) ==
    [backend |-> "anthropic", model |-> model, dimension |-> dimension,
     prompt |-> _build_prompt(ex, dimension, rubric),
     response_format |-> "", max_tokens |-> 256]

\* the two values of the reply stored under each other's name
_score_with_openai_Swapped(o) ==
    IF o.raised THEN Raises("APIError", <<>>)
    ELSE LET r == json_loads(o.text)
         IN  IF ~r.ok THEN r
             ELSE LET sc == Subscript(r.v[1], "score")
                      re == Subscript(r.v[1], "reasoning")
                  IN  IF ~sc.ok THEN sc
                      ELSE IF ~re.ok THEN re
                      ELSE Returns(Score(re.v[1], sc.v[1]))

\* _score_with_openai after the backend produced outcome o
_score_with_openai(o) ==
    IF o.raised THEN Raises("APIError", <<>>)
    ELSE LET r == json_loads(o.text)
         IN  IF ~r.ok THEN r
             ELSE LET sc == Subscript(r.v[1], "score")
                      re == Subscript(r.v[1], "reasoning")
                  IN  IF ~sc.ok THEN sc
                      ELSE IF ~re.ok THEN re
                      ELSE Returns(Score(sc.v[1], re.v[1]))

\* _score_with_anthropic after the backend produced outcome o
_score_with_anthropic(o) ==
    IF o.raised THEN Raises("APIError", <<>>)
    ELSE LET r == json_loads(o.text)
         IN  IF ~r.ok THEN r
             ELSE LET sc == Subscript(r.v[1], "score")
                      re == Subscript(r.v[1], "reasoning")
                  IN  IF ~sc.ok THEN sc
                      ELSE IF ~re.ok THEN re
                      ELSE Returns(Score(sc.v[1], re.v[1]))

(***************************************************************************)
(* Inputs of evaluate_example                                              *)
(***************************************************************************)
ModelPrefixes ==
    {GPT_, O1_, CLAUDE_,
     <<"g", "p", "t">>, <<"o", "1">>, <<"c", "l", "a", "u", "d", "e">>,
     <<"G", "P", "T", "-">>, <<"x", "g", "p", "t", "-">>,
     <<"u", "n", "k", "n", "o", "w", "n", "-">>, <<>>}
SuffixChars == {"4", "o", "-"}
ModelNames == {p \o t : p \in ModelPrefixes, t \in SeqsUpTo(SuffixChars, MaxSuffixLen)}

ID1 == <<"1">>
TICKET_T == <<"T">>
RESPONSE_R == <<"R">>
V1 == <<"v", "1">>

\* an object with the attributes id, ticket, response, model, prompt_version
FullExample(id, ticket, response, model, pv) ==
    [id |-> id, ticket |-> ticket, response |-> response,
     model |-> model, prompt_version |-> pv]

\* the Example dataclass of loader.py
Example(id, ticket, response) == [id |-> id, ticket |-> ticket, response |-> response]

EvalExamples ==
    {FullExample(ID1, TICKET_T, RESPONSE_R, m, V1) : m \in ModelNames}
    \cup {Example(ID1, TICKET_T, RESPONSE_R)}
    \cup {[id |-> ID1, ticket |-> TICKET_T, response |-> RESPONSE_R, model |-> m] :
            m \in {GPT_ \o <<"4">>, CLAUDE_ \o <<"4">>}}

Providers == {"openai", "anthropic", "other"}
PartialFns(D, R) == UNION {[d -> R] : d \in SUBSET D}
JudgeModelOf(p) ==
    CASE p = "openai" -> "gpt-4o-mini"
      [] p = "anthropic" -> "claude-sonnet-4-20250514"
      [] OTHER -> "other-judge-1"

\* Config(judge_mapping, judge_models) as load_config builds it from any YAML
Config(judge_mapping, judge_models) ==
    [judge_mapping |-> judge_mapping, judge_models |-> judge_models]
Configs ==
    {Config(jm, [p \in d |-> JudgeModelOf(p)]) :
        jm \in PartialFns({"openai", "anthropic"}, Providers), d \in SUBSET Providers}

\* the dict yaml.safe_load returns for a file with the two mappings
YamlDoc(judge_mapping, judge_models) ==
    [judge_mapping |-> judge_mapping, judge_models |-> judge_models]

\* a mapping to a provider without a judge model refused at load time
load_config_Validating(doc) ==
    IF "judge_mapping" \notin DOMAIN doc \/ "judge_models" \notin DOMAIN doc
    THEN Raises("KeyError", <<>>)
    ELSE IF \E p \in DOMAIN doc.judge_mapping : doc.judge_mapping[p] \notin DOMAIN doc.judge_models
    THEN Raises("ValueError", <<>>)
    ELSE Returns(Config(doc.judge_mapping, doc.judge_models))

\* load_config on the parsed YAML document
load_config(doc) ==
    IF "judge_mapping" \notin DOMAIN doc \/ "judge_models" \notin DOMAIN doc
    THEN Raises("KeyError", <<>>)
    ELSE Returns(Config(doc.judge_mapping, doc.judge_models))

ScoreObject(sc, re) ==
    <<LBRACE, TStr("score"), COLON, sc, COMMA, TStr("reasoning"), COLON, re, RBRACE>>

ReplyTexts ==
    {ScoreObject(TInt(4), TStr("Good relevance")),
     ScoreObject(TInt(5), TStr("")),
     ScoreObject(TInt(7), TStr("x")),
     ScoreObject(TStr("4"), TStr("x")),
     ScoreObject(TFloat("4.5"), TStr("x")),
     ScoreObject(TInt(4), TNull),
     <<LBRACE, TStr("reasoning"), COLON, TStr("x"), COMMA, TStr("score"), COLON, TInt(3), RBRACE>>,
     <<LBRACE, TStr("score"), COLON, TInt(4), RBRACE>>,
     <<LBRACE, TStr("reasoning"), COLON, TStr("x"), RBRACE>>,
     <<LBRACE, RBRACE>>,
     <<LBRACK, TInt(4), COMMA, TStr("x"), RBRACK>>,
     <<TStr("4")>>,
     <<TInt(4)>>,
     <<TNull>>,
     <<TJunk("The score is 4")>>,
     <<TJunk("Here is my rating:")>> \o ScoreObject(TInt(4), TStr("x")),
     <<LBRACE, TStr("score"), COLON, TInt(4), COMMA, TStr("reasoning"), COLON>>,
     <<>>}

Outcomes == {APIError} \cup {Reply(t) : t \in ReplyTexts}

\* replies built from a score and a reasoning
ScoreValues == {-1, 0} \cup (1..MaxScore)
ReasoningTexts == {"", "x", "Good relevance", "said \"ok\""}

\* the JSON text of {"score": s, "reasoning": x}
build_json(s, x) == ScoreObject(TInt(s), TStr(x))
\* the same object with its members in the other order
build_json_reversed(s, x) ==
    <<LBRACE, TStr("reasoning"), COLON, TStr(x), COMMA, TStr("score"), COLON, TInt(s), RBRACE>>

BuiltReplies ==
    {Reply(build_json(s, x)) : s \in ScoreValues, x \in ReasoningTexts}
    \cup {Reply(build_json_reversed(s, x)) : s \in ScoreValues, x \in ReasoningTexts}

(***************************************************************************)
(* evaluate_example, one step per judge call                               *)
(***************************************************************************)
HasAttr(obj, name) == name \in DOMAIN obj

\* the exception caught and dropped
Propagate_Swallowed(r) ==
    /\ exc' = exc
    /\ epc' = "raised"

\* an exception leaves evaluate_example: nothing in it catches
Propagate(r) ==
    /\ exc' = <<[type |-> r.type, msg |-> r.msg]>>
    /\ epc' = "raised"

\* evaluator.py:51-53
evaluate_example_route ==
    /\ epc = "start"
    /\ UNCHANGED <<example, config, judge, relevance, tone, calls, replies, result,
                   lvars, mvars>>
    /\ IF ~HasAttr(example, "model")
       THEN /\ Propagate(Raises("AttributeError", <<>>))
            /\ UNCHANGED <<response_provider, judge_provider, judge_model>>
       ELSE LET rp == get_provider_from_model(example.model)
            IN  IF ~rp.ok
                THEN /\ Propagate(rp)
                     /\ UNCHANGED <<response_provider, judge_provider, judge_model>>
                ELSE /\ response_provider' = rp.v
                     /\ IF rp.v[1] \notin DOMAIN config.judge_mapping
                        THEN /\ Propagate(Raises("KeyError", <<>>))
                             /\ UNCHANGED <<judge_provider, judge_model>>
                        ELSE LET jp == config.judge_mapping[rp.v[1]]
                             IN  /\ judge_provider' = <<jp>>
                                 /\ IF jp \notin DOMAIN config.judge_models
                                    THEN /\ Propagate(Raises("KeyError", <<>>))
                                         /\ UNCHANGED judge_model
                                    ELSE /\ judge_model' = <<config.judge_models[jp]>>
                                         /\ epc' = "routed"
                                         /\ UNCHANGED exc

\* dispatch on the generating provider instead of the judge provider
JudgeCall_OwnProvider(dimension, rubric) ==
    IF response_provider[1] = "openai"
    THEN OpenAICall(example, dimension, rubric, judge_model[1])
    ELSE AnthropicCall(example, dimension, rubric, judge_model[1])

\* the Anthropic backend for "anthropic" only, the OpenAI backend otherwise
JudgeCall_OpenAIDefault(dimension, rubric) ==
    IF judge_provider[1] = "anthropic"
    THEN AnthropicCall(example, dimension, rubric, judge_model[1])
    ELSE OpenAICall(example, dimension, rubric, judge_model[1])

\* the request of one dimension on the routed backend
JudgeCall(dimension, rubric) ==
    IF judge_provider[1] = "openai"
    THEN OpenAICall(example, dimension, rubric, judge_model[1])
    ELSE AnthropicCall(example, dimension, rubric, judge_model[1])

\* what the judge can answer to a request
JudgeOutcomes(call) == IF judge = <<>> THEN Outcomes ELSE {judge[1][call.prompt]}

\* the Score of one dimension on the routed backend
JudgeScore(o) ==
    IF judge_provider[1] = "openai" THEN _score_with_openai(o) ELSE _score_with_anthropic(o)

\* evaluator.py:55-58, 60-63
evaluate_example_relevance ==
    /\ epc = "routed"
    /\ \E o \in JudgeOutcomes(JudgeCall("relevance", RELEVANCE_RUBRIC)) :
        LET r == JudgeScore(o)
        IN  /\ calls' = Append(calls, JudgeCall("relevance", RELEVANCE_RUBRIC))
            /\ replies' = Append(replies, o)
            /\ IF r.ok
               THEN /\ relevance' = r.v
                    /\ epc' = "relevance"
                    /\ UNCHANGED exc
               ELSE /\ Propagate(r)
                    /\ UNCHANGED relevance
    /\ UNCHANGED <<example, config, judge, response_provider, judge_provider, judge_model,
                   tone, result, lvars, mvars>>

\* evaluator.py:59, 64, 66-72
evaluate_example_tone ==
    /\ epc = "relevance"
    /\ \E o \in JudgeOutcomes(JudgeCall("tone", TONE_RUBRIC)) :
        LET r == JudgeScore(o)
        IN  /\ calls' = Append(calls, JudgeCall("tone", TONE_RUBRIC))
            /\ replies' = Append(replies, o)
            /\ IF ~r.ok
               THEN /\ Propagate(r)
                    /\ UNCHANGED <<tone, result>>
               ELSE /\ tone' = r.v
                    /\ IF ~HasAttr(example, "prompt_version")
                       THEN /\ Propagate(Raises("AttributeError", <<>>))
                            /\ UNCHANGED result
                       ELSE /\ result' = <<EvalResult(example.id, example.model,
                                                      example.prompt_version,
                                                      relevance[1], r.v[1])>>
                            /\ epc' = "returned"
                            /\ UNCHANGED exc
    /\ UNCHANGED <<example, config, judge, response_provider, judge_provider, judge_model,
                   relevance, lvars, mvars>>

LoaderIdle ==
    /\ data = [type |-> "list", n |-> 0, s |-> <<>>, m |-> <<>>, items |-> <<>>]
    /\ lpc = "idle"
    /\ examples = <<>>
    /\ skipped = <<>>
    /\ lexc = <<>>

InitEval ==
    /\ example \in EvalExamples
    /\ config \in Configs
    /\ judge = <<>>
    /\ epc = "start"
    /\ response_provider = <<>>
    /\ judge_provider = <<>>
    /\ judge_model = <<>>
    /\ relevance = <<>>
    /\ tone = <<>>
    /\ calls = <<>>
    /\ replies = <<>>
    /\ result = <<>>
    /\ exc = <<>>
    /\ LoaderIdle
    /\ MainIdle

NextEval ==
    \/ evaluate_example_route
    \/ evaluate_example_relevance
    \/ evaluate_example_tone

SpecEval == InitEval /\ [][NextEval]_vars

(***************************************************************************)
(* Properties of evaluate_example (SpecEval)                               *)
(***************************************************************************)
SwapMapping == [p \in {"openai", "anthropic"} |-> IF p = "openai" THEN "anthropic" ELSE "openai"]

OnlyBackend(b) ==
    \A i \in DOMAIN calls :
        /\ calls[i].backend = b
        /\ b \in DOMAIN config.judge_models
        /\ calls[i].model = config.judge_models[b]

\* C1: with judge_mapping = {openai: anthropic, anthropic: openai}, an example
\* whose model classifies as openai is judged only on the Anthropic backend with
\* judge_models["anthropic"], one whose model classifies as anthropic only on
\* the OpenAI backend with judge_models["openai"]; once a dimension has been
\* scored the routed backend has been invoked.
C1_CrossProviderRouting ==
    (HasAttr(example, "model") /\ config.judge_mapping = SwapMapping) =>
        /\ (StartsWith(example.model, GPT_) \/ StartsWith(example.model, O1_)) =>
              /\ OnlyBackend("anthropic")
              /\ epc \in {"relevance", "returned"} => calls # <<>>
        /\ StartsWith(example.model, CLAUDE_) =>
              /\ OnlyBackend("openai")
              /\ epc \in {"relevance", "returned"} => calls # <<>>

C1_Witness ==
    /\ config.judge_mapping = SwapMapping
    /\ response_provider = <<"openai">>
    /\ epc = "returned"
    /\ Len(calls) = 2
    /\ OnlyBackend("anthropic")

\* C2: get_provider_from_model gives "openai" for names starting with "gpt-" or
\* "o1-", "anthropic" for names starting with "claude-", and otherwise raises an
\* error whose message ends with the model string; no other value is returned.
C2_ProviderClassification ==
    (epc # "start" /\ HasAttr(example, "model")) =>
        LET m == example.model
            isOpenAI == StartsWith(m, GPT_) \/ StartsWith(m, O1_)
            isAnthropic == StartsWith(m, CLAUDE_)
        IN  /\ isOpenAI => response_provider = <<"openai">>
            /\ isAnthropic => response_provider = <<"anthropic">>
            /\ (~isOpenAI /\ ~isAnthropic) =>
                  /\ response_provider = <<>>
                  /\ epc = "raised"
                  /\ exc # <<>>
                  /\ exc[1].type = "ValueError"
                  /\ exc[1].msg = UnknownProviderText \o m
                  /\ EndsWith(exc[1].msg, m)
            /\ response_provider \in {<<>>, <<"openai">>, <<"anthropic">>}

C2_Witness ==
    /\ HasAttr(example, "model")
    /\ example.model = <<"g", "p", "t", "4">>
    /\ epc = "raised"
    /\ exc # <<>>
    /\ exc[1].type = "ValueError"
    /\ EndsWith(exc[1].msg, <<"g", "p", "t", "4">>)

\* the Score a well-formed reply text denotes
ScoreIn(text) ==
    LET doc == json_loads(text).v[1]
    IN  Score(doc.m["score"], doc.m["reasoning"])

RoutedBackend == IF judge_provider = <<"openai">> THEN "openai" ELSE "anthropic"

\* C3: when evaluate_example returns, the routed backend was invoked exactly
\* twice, for relevance and then for tone, both with the routed judge model, and
\* the EvalResult has the example's id, model and prompt_version, the Score of
\* the first reply as relevance and the Score of the second reply as tone.
C3_SuccessResult ==
    (epc = "returned") =>
        /\ Len(calls) = 2
        /\ calls[1].dimension = "relevance"
        /\ calls[2].dimension = "tone"
        /\ \A i \in 1..2 : /\ calls[i].backend = RoutedBackend
                           /\ calls[i].model = judge_model[1]
        /\ Len(result) = 1
        /\ result[1].id = example.id
        /\ result[1].model = example.model
        /\ result[1].prompt_version = example.prompt_version
        /\ result[1].relevance = ScoreIn(replies[1].text)
        /\ result[1].tone = ScoreIn(replies[2].text)

C3_Witness ==
    /\ epc = "returned"
    /\ Len(calls) = 2
    /\ result[1].relevance = Score(PyVal("int", 4, ""), PyVal("str", 0, "Good relevance"))
    /\ result[1].tone = Score(PyVal("int", 5, ""), PyVal("str", 0, ""))

\* the Score slot that reply i fills
ScoreSlot(i) == IF i = 1 THEN relevance ELSE tone

ScoringFailedAt(i) ==
    /\ ScoreSlot(i) = <<>>
    /\ exc # <<>>
    /\ exc[1].type \in {"JSONDecodeError", "TypeError", "KeyError"}
    /\ Len(replies) = i

NotAnObject(text) ==
    LET r == json_loads(text) IN ~r.ok \/ r.v[1].type # "dict"

MissingKey(text) ==
    LET r == json_loads(text)
    IN  r.ok /\ r.v[1].type = "dict" /\ {"score", "reasoning"} \ (DOMAIN r.v[1].m) # {}

WrongType(text) ==
    LET r == json_loads(text)
    IN  /\ r.ok /\ r.v[1].type = "dict"
        /\ \/ "score" \in DOMAIN r.v[1].m /\ r.v[1].m["score"].type # "int"
           \/ "reasoning" \in DOMAIN r.v[1].m /\ r.v[1].m["reasoning"].type # "str"

DimensionCalls(d) == Cardinality({i \in DOMAIN calls : calls[i].dimension = d})

\* C5: when the backend call or the parsing of its reply fails for a dimension,
\* that failure is what evaluate_example raises, no EvalResult is returned, no
\* further call is made (so no tone call after a failed relevance step), and
\* each dimension has been requested at most once.
C5_FailurePropagation ==
    /\ DimensionCalls("relevance") <= 1
    /\ DimensionCalls("tone") <= 1
    /\ \A i \in DOMAIN replies :
        LET r == JudgeScore(replies[i])
        IN  ~r.ok =>
              /\ exc = <<[type |-> r.type, msg |-> r.msg]>>
              /\ epc = "raised"
              /\ result = <<>>
              /\ Len(calls) = i
              /\ i = 1 => DimensionCalls("tone") = 0

C5_Witness ==
    /\ Len(replies) = 1
    /\ replies[1] = APIError
    /\ exc # <<>>
    /\ exc[1].type = "APIError"
    /\ calls[1].dimension = "relevance"
    /\ result = <<>>

(***************************************************************************)
(* loader.py                                                               *)
(*                                                                         *)
(* A parsed JSON value is [type, n, s, m, items]: its Python type, the     *)
(* characters of a str in s, the entries of a dict in m (a function on the *)
(* keys that are present) and the elements of a list in items.             *)
(***************************************************************************)
JVal(type, n, s, m, items) == [type |-> type, n |-> n, s |-> s, m |-> m, items |-> items]
JStr(chars) == JVal("str", 0, chars, <<>>, <<>>)
JInt(n) == JVal("int", n, <<>>, <<>>, <<>>)
JNone == JVal("NoneType", 0, <<>>, <<>>, <<>>)
JBool(b) == JVal("bool", b, <<>>, <<>>, <<>>)
JList(items) == JVal("list", 0, <<>>, <<>>, items)
JDict(m) == JVal("dict", 0, <<>>, m, <<>>)

\* isinstance(v, T)
IsInstance(v, T) == v.type = T

\* the fields _validate_example iterates over
ValidatedFields == <<"id", "ticket", "response">>

\* the for loop of _validate_example from field number i on
RECURSIVE ValidateFields(_, _)
ValidateFields(item, i) ==
    IF i > Len(ValidatedFields) THEN <<>>
    ELSE LET field == ValidatedFields[i]
         IN  IF field \notin DOMAIN item.m
             THEN <<"Missing '" \o field \o "' field">>
             ELSE IF ~IsInstance(item.m[field], "str")
             THEN <<"'" \o field \o "' must be a string">>
             ELSE IF Strip(item.m[field].s) = <<>>
             THEN <<"'" \o field \o "' is empty">>
             ELSE ValidateFields(item, i + 1)

\* the isinstance check left out: a non-object is examined field by field
_validate_example_NoTypeCheck(item) == ValidateFields(item, 1)

\* the error message (<<msg>>), or None (<<>>) for a valid item
_validate_example(item) ==
    IF ~IsInstance(item, "dict") THEN <<"Item is not an object">>
    ELSE ValidateFields(item, 1)

SkipRecord(index, reason) == [index |-> index, reason |-> reason]
LoadResult(exs, sk) == [examples |-> exs, skipped |-> sk]

\* the for loop of load_examples from item number i on (enumerate index i - 1)
RECURSIVE LoadLoop(_, _, _, _)
LoadLoop(items, i, exs, sk) ==
    IF i > Len(items) THEN LoadResult(exs, sk)
    ELSE LET item == items[i]
             error == _validate_example(item)
         IN  IF error # <<>>
             THEN LoadLoop(items, i + 1, exs, Append(sk, SkipRecord(i - 1, error[1])))
             ELSE LoadLoop(items, i + 1,
                           Append(exs, Example(item.m["id"].s, item.m["ticket"].s,
                                               item.m["response"].s)),
                           sk)

\* a top-level object taken as an array of one item
load_examples_body_WrapsObject ==
    /\ lpc = "start"
    /\ IF ~IsInstance(data, "list") /\ ~IsInstance(data, "dict")
       THEN /\ lexc' = <<[type |-> "ValueError", msg |-> "Input must be a JSON array"]>>
            /\ lpc' = "raised"
            /\ UNCHANGED <<examples, skipped>>
       ELSE LET r == LoadLoop(IF IsInstance(data, "dict") THEN <<data>> ELSE data.items,
                              1, <<>>, <<>>)
            IN  /\ examples' = r.examples
                /\ skipped' = r.skipped
                /\ lpc' = "done"
                /\ UNCHANGED lexc
    /\ UNCHANGED data

\* load_examples on the parsed input
load_examples_body ==
    /\ lpc = "start"
    /\ IF ~IsInstance(data, "list")
       THEN /\ lexc' = <<[type |-> "ValueError", msg |-> "Input must be a JSON array"]>>
            /\ lpc' = "raised"
            /\ UNCHANGED <<examples, skipped>>
       ELSE LET r == LoadLoop(data.items, 1, <<>>, <<>>)
            IN  /\ examples' = r.examples
                /\ skipped' = r.skipped
                /\ lpc' = "done"
                /\ UNCHANGED lexc
    /\ UNCHANGED data

\* a call of load_examples on its own
load_examples == load_examples_body /\ UNCHANGED <<evars, mvars>>

(***************************************************************************)
(* Inputs of load_examples                                                 *)
(***************************************************************************)
FieldNames == <<"id", "ticket", "response", "model", "prompt_version">>
FieldSet == {FieldNames[i] : i \in DOMAIN FieldNames}

GoodValue(field) ==
    CASE field = "id" -> JStr(ID1)
      [] field = "ticket" -> JStr(TICKET_T)
      [] field = "response" -> JStr(RESPONSE_R)
      [] field = "model" -> JStr(GPT_ \o <<"4">>)
      [] field = "prompt_version" -> JStr(V1)

\* what a field can hold, besides being absent
FieldValues(field) ==
    {GoodValue(field), JInt(123), JStr(<<>>), JStr(<<" ", "\t", "\n">>)}

\* every object over the five fields, each absent or holding one of its values
ObjectItems ==
    UNION {{JDict(m) : m \in {f \in [K -> UNION {FieldValues(k) : k \in K}] :
                                \A k \in K : f[k] \in FieldValues(k)}} :
           K \in SUBSET FieldSet}

NonObjectItems ==
    {JStr(<<"n", "o">>), JInt(123), JNone, JBool(1), JList(<<>>)}

GoodItem(id, model, pv) ==
    JDict([k \in FieldSet |->
            CASE k = "id" -> JStr(id)
              [] k = "model" -> JStr(model)
              [] k = "prompt_version" -> JStr(pv)
              [] OTHER -> GoodValue(k)])

Without(item, field) == JDict([k \in (DOMAIN item.m) \ {field} |-> item.m[k]])
With(item, field, v) == JDict([k \in (DOMAIN item.m) \cup {field} |->
                                 IF k = field THEN v ELSE item.m[k]])

ItemA == GoodItem(ID1, GPT_ \o <<"4">>, V1)
ItemB == GoodItem(<<"2">>, CLAUDE_ \o <<"3">>, <<"v", "2">>)

\* the items that arrays of several items are made of
MixedItems ==
    {ItemA, ItemB,
     Without(ItemA, "model"), Without(ItemB, "prompt_version"),
     With(ItemA, "model", JInt(123)), With(ItemB, "prompt_version", JStr(<<" ">>)),
     Without(ItemA, "id"), With(ItemB, "ticket", JStr(<<>>)),
     With(Without(ItemA, "ticket"), "id", JInt(123)),
     JStr(<<"n", "o">>), JNone}

LoadInputs ==
    {JList(<<i>>) : i \in ObjectItems \cup NonObjectItems}
    \cup {JList(items) : items \in SeqsUpTo(MixedItems, MaxBatch)}
    \cup {ItemA, JStr(<<"n", "o">>), JInt(123), JNone}

EvalIdle ==
    /\ example = Example(ID1, TICKET_T, RESPONSE_R)
    /\ config = Config(<<>>, <<>>)
    /\ judge = <<>>
    /\ epc = "idle"
    /\ response_provider = <<>>
    /\ judge_provider = <<>>
    /\ judge_model = <<>>
    /\ relevance = <<>>
    /\ tone = <<>>
    /\ calls = <<>>
    /\ replies = <<>>
    /\ result = <<>>
    /\ exc = <<>>

InitLoad ==
    /\ data \in LoadInputs
    /\ lpc = "start"
    /\ examples = <<>>
    /\ skipped = <<>>
    /\ lexc = <<>>
    /\ EvalIdle
    /\ MainIdle

NextLoad == load_examples

SpecLoad == InitLoad /\ [][NextLoad]_vars

(***************************************************************************)
(* Properties of load_examples (SpecLoad)                                  *)
(***************************************************************************)
Present(item, f) == f \in DOMAIN item.m
IsString(item, f) == Present(item, f) /\ item.m[f].type = "str"
FieldOK(item, f) == IsString(item, f) /\ Strip(item.m[f].s) # <<>>

\* an item that is an object with the five fields present, strings and non-empty
IsValidItem(item) == item.type = "dict" /\ \A f \in FieldSet : FieldOK(item, f)

MissingReason(f) == "Missing '" \o f \o "' field"
TypeReason(f) == "'" \o f \o "' must be a string"
EmptyReason(f) == "'" \o f \o "' is empty"

\* the reason for the fault of field f of an item
ReasonFor(item, f) ==
    IF ~Present(item, f) THEN MissingReason(f)
    ELSE IF ~IsString(item, f) THEN TypeReason(f)
    ELSE EmptyReason(f)

\* the first field, in the order of FieldNames, that satisfies P
FirstField(P(_)) ==
    FieldNames[CHOOSE i \in DOMAIN FieldNames :
                  /\ P(FieldNames[i])
                  /\ \A j \in 1..(i - 1) : ~P(FieldNames[j])]

SkippedIndices == {skipped[k].index : k \in DOMAIN skipped}
SkippedWith(i, reason) == \E k \in DOMAIN skipped : skipped[k] = SkipRecord(i - 1, reason)

Positions(P(_)) ==
    SelectSeq([i \in 1..Len(data.items) |-> i], LAMBDA i : P(data.items[i]))
IsInvalidItem(item) == ~IsValidItem(item)

\* the positions of the items that were not skipped, in input order
AcceptedPositions ==
    LET idx == [i \in 1..Len(data.items) |-> i]
        NotSkipped(i) == (i - 1) \notin SkippedIndices
    IN  SelectSeq(idx, NotSkipped)

\* C6: after load of an array, len(examples) + len(skipped) = len(input), the
\* skip indices are exactly the zero-based positions of the invalid items,
\* strictly increasing, one record per invalid item, and the examples are the
\* valid items in input order.
C6_LoaderPartition ==
    (lpc = "done") =>
        LET valid == Positions(IsValidItem)
            invalid == Positions(IsInvalidItem)
        IN  /\ Len(examples) + Len(skipped) = Len(data.items)
            /\ Len(skipped) = Len(invalid)
            /\ \A k \in DOMAIN skipped : skipped[k].index = invalid[k] - 1
            /\ \A j, k \in DOMAIN skipped : j < k => skipped[j].index < skipped[k].index
            /\ Len(examples) = Len(valid)
            /\ \A k \in DOMAIN examples :
                  \A f \in {"id", "ticket", "response"} :
                      examples[k][f] = data.items[valid[k]].m[f].s

\* C7: an item is accepted if and only if it is an object whose five fields
\* are present, strings and non-empty after trimming; an object with valid id,
\* ticket and response and a faulty model or prompt_version is skipped with the
\* reason of one of these faulty fields.
C7_AcceptedIffFiveFieldsValid ==
    (lpc = "done") =>
        \A i \in DOMAIN data.items :
            LET item == data.items[i]
            IN  /\ ((i - 1) \notin SkippedIndices) <=> IsValidItem(item)
                /\ ( /\ item.type = "dict"
                     /\ \A f \in {"id", "ticket", "response"} : FieldOK(item, f)
                     /\ \E f \in {"model", "prompt_version"} : ~FieldOK(item, f) )
                   => \E f \in {"model", "prompt_version"} :
                         ~FieldOK(item, f) /\ SkippedWith(i, ReasonFor(item, f))

\* C8: every Example produced by load has the five fields id, ticket, response,
\* model and prompt_version, each equal to that field of the item it was built
\* from.
C8_ExampleCarriesFiveFields ==
    (lpc = "done") =>
        /\ Len(examples) = Len(AcceptedPositions)
        /\ \A k \in DOMAIN examples :
              /\ DOMAIN examples[k] = FieldSet
              /\ \A f \in FieldSet :
                    /\ Present(data.items[AcceptedPositions[k]], f)
                    /\ examples[k][f] = data.items[AcceptedPositions[k]].m[f].s

\* C9: an object that lacks a required field is skipped with "Missing '<f>'
\* field" for the first missing field in the order id, ticket, response, model,
\* prompt_version, whatever the other fields hold.
C9_MissingFieldPrecedence ==
    (lpc = "done") =>
        \A i \in DOMAIN data.items :
            LET item == data.items[i]
                Absent(f) == ~Present(item, f)
            IN  (item.type = "dict" /\ \E f \in FieldSet : Absent(f))
                    => SkippedWith(i, MissingReason(FirstField(Absent)))

\* C10: an object with all required fields present and one of them not a string
\* is skipped with "'<f>' must be a string" for the first non-string field in
\* the order id, ticket, response, model, prompt_version, even if another field
\* is empty.
C10_TypeBeforeEmptiness ==
    (lpc = "done") =>
        \A i \in DOMAIN data.items :
            LET item == data.items[i]
                NotString(f) == ~IsString(item, f)
            IN  ( /\ item.type = "dict"
                  /\ \A f \in FieldSet : Present(item, f)
                  /\ \E f \in FieldSet : NotString(f) )
                    => SkippedWith(i, TypeReason(FirstField(NotString)))

NotAnObjectReason == "Item is not an object"

\* C11: for every array input load_examples returns without raising, and every
\* item that is not an object has a skip record with its own index and the
\* reason "Item is not an object".
C11_PerItemProblemsCollected ==
    (lpc # "start" /\ data.type = "list") =>
        /\ lpc = "done"
        /\ lexc = <<>>
        /\ \A i \in DOMAIN data.items :
              data.items[i].type # "dict" => SkippedWith(i, NotAnObjectReason)

C11_Witness ==
    /\ lpc = "done"
    /\ data = JList(<<ItemA, JStr(<<"n", "o">>)>>)
    /\ Len(examples) = 1
    /\ skipped = <<SkipRecord(1, NotAnObjectReason)>>

\* C12: a top-level input that is not an array makes load_examples raise
\* "Input must be a JSON array" and return no Example and no SkipRecord, also
\* when the input is an object that would be a valid item.
C12_NonArrayIsFatal ==
    (lpc # "start" /\ data.type # "list") =>
        /\ lpc = "raised"
        /\ lexc = <<[type |-> "ValueError", msg |-> "Input must be a JSON array"]>>
        /\ examples = <<>>
        /\ skipped = <<>>

C12_Witness ==
    /\ data = ItemA
    /\ IsValidItem(data)
    /\ lpc = "raised"
    /\ lexc # <<>>
    /\ examples = <<>>

\* C13: an object whose five required fields are all present strings, one of
\* them empty or whitespace only, is skipped with "'<f>' is empty" for the first
\* such field in the order id, ticket, response, model, prompt_version.
C13_WhitespaceIsEmpty ==
    (lpc = "done") =>
        \A i \in DOMAIN data.items :
            LET item == data.items[i]
                Blank(f) == Strip(item.m[f].s) = <<>>
            IN  ( /\ item.type = "dict"
                  /\ \A f \in FieldSet : IsString(item, f)
                  /\ \E f \in FieldSet : Blank(f) )
                    => SkippedWith(i, EmptyReason(FirstField(Blank)))

(***************************************************************************)
(* aggregator.py                                                           *)
(*                                                                         *)
(* A dict is the sequence of its [key, value] entries in insertion order.  *)
(* A list of results inside a dict holds the positions of the objects in   *)
(* the results list (two equal results are still two objects).  A mean is  *)
(* an integer number of hundredths: round(x, 2) = mean / 100.              *)
(***************************************************************************)
Entry(key, value) == [key |-> key, value |-> value]
Keys(d) == {d[j].key : j \in DOMAIN d}

\* by_x[k] = [r]: the group replaced instead of extended
DictAppend_Overwrite(d, key, x) ==
    IF key \in Keys(d)
    THEN [j \in DOMAIN d |-> IF d[j].key = key THEN Entry(key, <<x>>) ELSE d[j]]
    ELSE Append(d, Entry(key, <<x>>))

\* d[key].append(x) on a defaultdict(list)
DictAppend(d, key, x) ==
    IF key \in Keys(d)
    THEN [j \in DOMAIN d |-> IF d[j].key = key THEN Entry(key, Append(d[j].value, x)) ELSE d[j]]
    ELSE Append(d, Entry(key, <<x>>))

\* the model alone as the key of by_combo
CompositeKey_ModelOnly(r) == r.model

\* f"{r.model}|{r.prompt_version}"
CompositeKey(r) == r.model \o <<"|">> \o r.prompt_version

\* by_model starting with a group that has no members
EmptyGroups_Seeded ==
    [by_model |-> <<Entry(<<>>, <<>>)>>, by_prompt |-> <<>>, by_combo |-> <<>>]

\* the three defaultdict(list) of aggregator.py:23-25
EmptyGroups == [by_model |-> <<>>, by_prompt |-> <<>>, by_combo |-> <<>>]

\* the for loop of compute_aggregates from result number i on
RECURSIVE GroupLoop(_, _, _)
GroupLoop(rs, i, g) ==
    IF i > Len(rs) THEN g
    ELSE GroupLoop(rs, i + 1,
                   [by_model |-> DictAppend(g.by_model, rs[i].model, i),
                    by_prompt |-> DictAppend(g.by_prompt, rs[i].prompt_version, i),
                    by_combo |-> DictAppend(g.by_combo, CompositeKey(rs[i]), i)])

\* a score that 0 + v rejects
NotAddable(v) == v.type \in {"str", "NoneType"}

\* the value of a float literal in hundredths
FloatHundredths(s) == CASE s = "4.5" -> 450

\* the value of a numeric score in hundredths
Hundredths(v) ==
    CASE v.type \in {"int", "bool"} -> 100 * v.n
      [] v.type = "float" -> FloatHundredths(v.s)

RECURSIVE Sum(_)
Sum(scores) == IF scores = <<>> THEN 0 ELSE Hundredths(Head(scores)) + Sum(Tail(scores))

\* a / n to the nearest integer, a tie to the even one
RoundHalfEven(a, n) ==
    LET q == a \div n
        r == a - q * n
    IN  IF 2 * r < n THEN q
        ELSE IF 2 * r > n THEN q + 1
        ELSE IF q % 2 = 0 THEN q ELSE q + 1

\* the hundredths cut off instead of rounded
Mean_Truncated(scores) == Sum(scores) \div Len(scores)

\* round(sum(scores) / len(scores), 2) in hundredths (a quotient halfway
\* between two hundredths needs a group of 4 or 8 scores, and is then exact in
\* binary, so that round() takes the even neighbour)
Mean(scores) == RoundHalfEven(Sum(scores), Len(scores))

\* min(scores), max(scores): the first smallest, the first largest element
Min(scores) ==
    scores[CHOOSE i \in DOMAIN scores :
              /\ \A j \in DOMAIN scores : Hundredths(scores[i]) <= Hundredths(scores[j])
              /\ \A j \in 1..(i - 1) : Hundredths(scores[j]) > Hundredths(scores[i])]
Max(scores) ==
    scores[CHOOSE i \in DOMAIN scores :
              /\ \A j \in DOMAIN scores : Hundredths(scores[i]) >= Hundredths(scores[j])
              /\ \A j \in 1..(i - 1) : Hundredths(scores[j]) < Hundredths(scores[i])]

\* {"mean": ..., "min": ..., "max": ...} of one dimension, aggregator.py:46-55
DimensionStats(scores) ==
    IF \E i \in DOMAIN scores : NotAddable(scores[i]) THEN Raises("TypeError", <<>>)
    ELSE IF Len(scores) = 0 THEN Raises("ZeroDivisionError", <<>>)
    ELSE Returns([mean |-> Mean(scores), min |-> Min(scores), max |-> Max(scores)])

\* _compute_stats on a list of results
_compute_stats(rs) ==
    LET relevance_scores == [i \in DOMAIN rs |-> rs[i].relevance.score]
        tone_scores == [i \in DOMAIN rs |-> rs[i].tone.score]
        rel == DimensionStats(relevance_scores)
        ton == DimensionStats(tone_scores)
    IN  IF ~rel.ok THEN rel
        ELSE IF ~ton.ok THEN ton
        ELSE Returns([count |-> Len(rs), relevance |-> rel.v[1], tone |-> ton.v[1]])

\* {k: _compute_stats(v) for k, v in d.items()}, each value still an outcome
StatsOf(rs, d) ==
    [j \in DOMAIN d |->
        Entry(d[j].key, _compute_stats([n \in DOMAIN d[j].value |-> rs[d[j].value[n]]]))]

\* compute_aggregates: the dict of aggregator.py:32-36, or what the first
\* failing _compute_stats raised
compute_aggregates(rs) ==
    LET g == GroupLoop(rs, 1, EmptyGroups)
        by_model == StatsOf(rs, g.by_model)
        by_prompt == StatsOf(rs, g.by_prompt)
        by_combo == StatsOf(rs, g.by_combo)
        all == by_model \o by_prompt \o by_combo
        failing == {j \in DOMAIN all : ~all[j].value.ok}
        Values(d) == [j \in DOMAIN d |-> Entry(d[j].key, d[j].value.v[1])]
    IN  IF failing # {}
        THEN all[CHOOSE j \in failing : \A k \in failing : j <= k].value
        ELSE Returns([by_model |-> Values(by_model),
                      by_prompt_version |-> Values(by_prompt),
                      by_model_and_prompt_version |-> Values(by_combo)])

(***************************************************************************)
(* reporter.py                                                             *)
(***************************************************************************)
_result_to_dict(r) ==
    [id |-> r.id, model |-> r.model, prompt_version |-> r.prompt_version,
     relevance |-> [score |-> r.relevance.score, reasoning |-> r.relevance.reasoning],
     tone |-> [score |-> r.tone.score, reasoning |-> r.tone.reasoning]]

\* the parameters of write_results, reporter.py:7-13
write_results_params == <<"results", "skipped", "failed", "aggregates", "output_path">>

\* write_results called with the positional arguments args: the document it
\* dumps to output_path, or the TypeError of a call that leaves a parameter
\* without an argument
write_results(args) ==
    IF Len(args) # Len(write_results_params)
    THEN Raises("TypeError", <<>>)
    ELSE Returns([results |-> [i \in DOMAIN args[1] |-> _result_to_dict(args[1][i])],
                  skipped |-> args[2],
                  failed |-> args[3],
                  aggregates |-> args[4]])

(***************************************************************************)
(* main.py                                                                 *)
(***************************************************************************)
OUTPUT_PATH == "results/output.json"

\* an exception leaves main: nothing in it catches
Crash(r) ==
    /\ mexc' = <<[type |-> r.type, msg |-> r.msg]>>
    /\ mpc' = "crashed"
    /\ UNCHANGED exit_status

\* return status
Return(status) ==
    /\ exit_status' = <<status>>
    /\ mpc' = "returned"
    /\ UNCHANGED mexc

\* main.py:27-52: the file checks, load_config (which raises on a file without
\* the two mappings), load_examples, results = []
main_load ==
    /\ mpc = "start"
    /\ \E input_exists, config_exists, config_loads \in BOOLEAN :
          IF ~input_exists \/ ~config_exists
          THEN /\ Return(1)
               /\ UNCHANGED lvars
          ELSE IF ~config_loads
          THEN /\ Crash(Raises("KeyError", <<>>))
               /\ UNCHANGED lvars
          ELSE /\ load_examples_body
               /\ IF lexc' # <<>>
                  THEN Crash(lexc'[1])
                  ELSE IF examples' = <<>>
                  THEN Return(1)
                  ELSE /\ mpc' = "loop"
                       /\ UNCHANGED <<exit_status, mexc>>
    /\ UNCHANGED <<evars, cur, eval_log, results, groups, agg_calls, aggregates, output>>

\* the list walked from its end
NextExample_Reversed == examples[Len(examples) - cur]

\* the example of the next iteration of enumerate(load_result.examples, 1)
NextExample == examples[cur + 1]

\* the failed iteration skipped and the loop continued
main_iterate_SkipFailed ==
    /\ mpc = "loop"
    /\ LET ex == NextExample
       IN  /\ cur' = cur + 1
           /\ IF ~HasAttr(ex, "model")
              THEN /\ eval_log' = Append(eval_log, "raised")
                   /\ mpc' = IF cur + 1 = Len(examples) THEN "aggregate" ELSE "loop"
                   /\ UNCHANGED <<evars, mexc>>
              ELSE /\ example' = ex
                   /\ epc' = "start"
                   /\ response_provider' = <<>>
                   /\ judge_provider' = <<>>
                   /\ judge_model' = <<>>
                   /\ relevance' = <<>>
                   /\ tone' = <<>>
                   /\ result' = <<>>
                   /\ exc' = <<>>
                   /\ mpc' = "evaluating"
                   /\ UNCHANGED <<config, judge, calls, replies, eval_log, mexc>>
    /\ UNCHANGED <<lvars, results, groups, agg_calls, aggregates, output, exit_status>>

\* main.py:54-60: the next example, the progress line that reads example.id
\* and example.model, and the call of evaluate_example
main_iterate ==
    /\ mpc = "loop"
    /\ LET ex == NextExample
       IN  /\ cur' = cur + 1
           /\ IF ~HasAttr(ex, "model")
              THEN /\ eval_log' = Append(eval_log, "raised")
                   /\ Crash(Raises("AttributeError", <<>>))
                   /\ UNCHANGED evars
              ELSE /\ example' = ex
                   /\ epc' = "start"
                   /\ response_provider' = <<>>
                   /\ judge_provider' = <<>>
                   /\ judge_model' = <<>>
                   /\ relevance' = <<>>
                   /\ tone' = <<>>
                   /\ result' = <<>>
                   /\ exc' = <<>>
                   /\ mpc' = "evaluating"
                   /\ UNCHANGED <<config, judge, calls, replies, eval_log, mexc, exit_status>>
    /\ UNCHANGED <<lvars, results, groups, agg_calls, aggregates, output>>

\* main.py:56-61: evaluate_example has returned or raised
main_collect ==
    /\ mpc = "evaluating"
    /\ epc \in {"returned", "raised"}
    /\ epc' = "idle"
    /\ IF epc = "raised"
       THEN /\ eval_log' = Append(eval_log, "raised")
            /\ Crash(exc[1])
            /\ UNCHANGED results
       ELSE /\ eval_log' = Append(eval_log, "returned")
            /\ results' = Append(results, result[1])
            /\ mpc' = IF cur = Len(examples) THEN "aggregate" ELSE "loop"
            /\ UNCHANGED <<mexc, exit_status>>
    /\ UNCHANGED <<example, config, judge, response_provider, judge_provider, judge_model,
                   relevance, tone, calls, replies, result, exc,
                   lvars, cur, groups, agg_calls, aggregates, output>>

\* the aggregates of an earlier call returned again
main_aggregate_Cached ==
    /\ mpc = "aggregate"
    /\ agg_calls' = Append(agg_calls, results)
    /\ IF aggregates # <<>>
       THEN /\ mpc' = "write"
            /\ UNCHANGED <<groups, aggregates, mexc, exit_status>>
       ELSE /\ groups' = <<GroupLoop(results, 1, EmptyGroups)>>
            /\ LET a == compute_aggregates(results)
               IN  IF a.ok
                   THEN /\ aggregates' = a.v
                        /\ mpc' = "write"
                        /\ UNCHANGED <<mexc, exit_status>>
                   ELSE /\ Crash(a)
                        /\ UNCHANGED aggregates
    /\ UNCHANGED <<evars, lvars, cur, eval_log, results, output>>

\* main.py:63-64
main_aggregate ==
    /\ mpc = "aggregate"
    /\ groups' = <<GroupLoop(results, 1, EmptyGroups)>>
    /\ agg_calls' = Append(agg_calls, results)
    /\ LET a == compute_aggregates(results)
       IN  IF a.ok
           THEN /\ aggregates' = a.v
                /\ mpc' = "write"
                /\ UNCHANGED <<mexc, exit_status>>
           ELSE /\ Crash(a)
                /\ UNCHANGED aggregates
    /\ UNCHANGED <<evars, lvars, cur, eval_log, results, output>>

\* main.py:66-70
main_write ==
    /\ mpc = "write"
    /\ LET w == write_results(<<results, skipped, aggregates[1], OUTPUT_PATH>>)
       IN  IF w.ok
           THEN /\ output' = w.v
                /\ Return(0)
           ELSE /\ Crash(w)
                /\ UNCHANGED output
    /\ UNCHANGED <<evars, lvars, cur, eval_log, results, groups, agg_calls, aggregates>>

(***************************************************************************)
(* compute_aggregates and the write_results call of main on any results    *)
(***************************************************************************)
GPT4 == GPT_ \o <<"4">>
CLAUDE3 == CLAUDE_ \o <<"3">>
V2 == <<"v", "2">>

IntScore(n) == Score(PyVal("int", n, ""), PyVal("str", 0, "ok"))
StrScore(s) == Score(PyVal("str", 0, s), PyVal("str", 0, "ok"))

\* results of several models and prompt versions; two pairs whose model or
\* prompt_version contains "|"; scores outside 1..5; a score that is a str
ResultPool ==
    {EvalResult(<<"1">>, GPT4, V1, IntScore(4), IntScore(5)),
     EvalResult(<<"2">>, GPT4, V1, IntScore(3), IntScore(4)),
     EvalResult(<<"3">>, CLAUDE3, V2, IntScore(5), IntScore(5)),
     EvalResult(<<"4">>, GPT4, V2, IntScore(1), IntScore(2)),
     EvalResult(<<"5">>, GPT4 \o <<"|", "a">>, <<"b">>, IntScore(2), IntScore(3)),
     EvalResult(<<"6">>, GPT4, <<"a", "|", "b">>, IntScore(5), IntScore(1)),
     EvalResult(<<"7">>, CLAUDE3, V1, IntScore(7), IntScore(-1)),
     EvalResult(<<"8">>, GPT4, V1, IntScore(4), StrScore("4"))}

SkippedLists ==
    {<<>>, <<SkipRecord(0, NotAnObjectReason), SkipRecord(2, "Missing 'id' field")>>}

InitAgg ==
    /\ results \in SeqsUpTo(ResultPool, MaxResults)
    /\ skipped \in SkippedLists
    /\ mpc = "aggregate"
    /\ cur = 0
    /\ eval_log = <<>>
    /\ groups = <<>>
    /\ agg_calls = <<>>
    /\ aggregates = <<>>
    /\ output = <<>>
    /\ exit_status = <<>>
    /\ mexc = <<>>
    /\ data = JList(<<>>)
    /\ lpc = "idle"
    /\ examples = <<>>
    /\ lexc = <<>>
    /\ EvalIdle

NextAgg ==
    \/ main_aggregate
    \/ main_write

SpecAgg == InitAgg /\ [][NextAgg]_vars

(***************************************************************************)
(* Properties of compute_aggregates and write_results (SpecAgg)            *)
(***************************************************************************)
Groupings == {"by_model", "by_prompt_version", "by_model_and_prompt_version"}

\* the key the spec gives a result in a grouping
KeyIn(name, r) ==
    CASE name = "by_model" -> r.model
      [] name = "by_prompt_version" -> r.prompt_version
      [] name = "by_model_and_prompt_version" -> r.model \o <<"|">> \o r.prompt_version

\* the lists of results compute_aggregates built for a grouping
GroupsOf(name) ==
    CASE name = "by_model" -> groups[1].by_model
      [] name = "by_prompt_version" -> groups[1].by_prompt
      [] name = "by_model_and_prompt_version" -> groups[1].by_combo

\* the places (entry, position in its list) where result number i is held
PlacesOf(d, i) ==
    {pl \in (DOMAIN d) \X (1..Len(results)) :
        pl[2] \in DOMAIN d[pl[1]].value /\ d[pl[1]].value[pl[2]] = i}

DistinctKeys(d) == \A j, k \in DOMAIN d : d[j].key = d[k].key => j = k

RECURSIVE SumCounts(_)
SumCounts(d) == IF d = <<>> THEN 0 ELSE Head(d).value.count + SumCounts(Tail(d))

\* the positions of the results whose key in a grouping is key, in order
MembersOf(name, key) ==
    SelectSeq([i \in 1..Len(results) |-> i], LAMBDA i : KeyIn(name, results[i]) = key)

\* C14: in each of the three groupings every result is held by exactly one
\* entry, the entry of its model, its prompt_version or its composite key, and
\* the counts of the entries of each grouping sum to len(results).
C14_AggregationConserves ==
    /\ groups # <<>> =>
          \A name \in Groupings :
              LET d == GroupsOf(name)
              IN  /\ DistinctKeys(d)
                  /\ \A i \in DOMAIN results :
                        /\ Cardinality(PlacesOf(d, i)) = 1
                        /\ \A pl \in PlacesOf(d, i) : d[pl[1]].key = KeyIn(name, results[i])
    /\ aggregates # <<>> =>
          \A name \in Groupings :
              LET a == aggregates[1][name]
              IN  /\ DistinctKeys(a)
                  /\ SumCounts(a) = Len(results)
                  /\ \A i \in DOMAIN results :
                        \E j \in DOMAIN a :
                            /\ a[j].key = KeyIn(name, results[i])
                            /\ a[j].value.count = Len(MembersOf(name, a[j].key))

C14_Witness ==
    /\ aggregates # <<>>
    /\ Len(results) = 3
    /\ Len(aggregates[1].by_model) = 2
    /\ Len(aggregates[1].by_prompt_version) = 3
    /\ \E j \in DOMAIN aggregates[1].by_model : aggregates[1].by_model[j].value.count = 2

Dimensions == {"relevance", "tone"}

RECURSIVE IntSum(_)
IntSum(ns) == IF ns = <<>> THEN 0 ELSE Head(ns) + IntSum(Tail(ns))

\* C15: with integer scores, for every entry and each dimension, count is the
\* group size, min and max are the smallest and largest score of the group,
\* mean is the mean of the scores to the nearest hundredth, min <= mean <= max,
\* and a group of one result has min = max = mean.
C15_GroupStatistics ==
    (aggregates # <<>> /\ \A i \in DOMAIN results : \A dim \in Dimensions :
                              results[i][dim].score.type = "int") =>
        \A name \in Groupings :
            \A j \in DOMAIN aggregates[1][name] :
                LET e == aggregates[1][name][j]
                    members == MembersOf(name, e.key)
                    n == Len(members)
                IN  /\ e.value.count = n
                    /\ n >= 1
                    /\ \A dim \in Dimensions :
                          LET score(k) == results[members[k]][dim].score.n
                              st == e.value[dim]
                              total == IntSum([k \in 1..n |-> score(k)])
                          IN  /\ \E k \in 1..n : st.min.n = score(k)
                              /\ \A k \in 1..n : st.min.n <= score(k)
                              /\ \E k \in 1..n : st.max.n = score(k)
                              /\ \A k \in 1..n : st.max.n >= score(k)
                              /\ 2 * (n * st.mean - 100 * total) <= n
                              /\ 2 * (100 * total - n * st.mean) <= n
                              /\ 100 * st.min.n <= st.mean
                              /\ st.mean <= 100 * st.max.n
                              /\ n = 1 => (st.min = st.max /\ st.mean = 100 * st.min.n)

\* scores [4, 3] give mean 3.5, min 3, max 4, count 2
C15_Witness ==
    /\ aggregates # <<>>
    /\ \E j \in DOMAIN aggregates[1].by_model :
          /\ aggregates[1].by_model[j].value.count = 2
          /\ aggregates[1].by_model[j].value.relevance =
                [mean |-> 350, min |-> PyVal("int", 3, ""), max |-> PyVal("int", 4, "")]
    /\ \E j \in DOMAIN aggregates[1].by_prompt_version :
          aggregates[1].by_prompt_version[j].value.count = 1

\* two results are held by the same by_model_and_prompt_version entry
SameComboEntry(i, j) ==
    \E k \in DOMAIN groups[1].by_combo :
        /\ PlacesOf(<<groups[1].by_combo[k]>>, i) # {}
        /\ PlacesOf(<<groups[1].by_combo[k]>>, j) # {}

SamePair(i, j) ==
    /\ results[i].model = results[j].model
    /\ results[i].prompt_version = results[j].prompt_version

HasBar(str) == \E n \in DOMAIN str : str[n] = "|"

\* C16 as stated: two results share a by_model_and_prompt_version entry if and
\* only if they have the same model and the same prompt_version, also when the
\* strings contain "|".
C16_CompositeGroupsByPairOriginal ==
    groups # <<>> =>
        \A i, j \in DOMAIN results : SameComboEntry(i, j) <=> SamePair(i, j)

\* C16: the key of a result's by_model_and_prompt_version entry is
\* model + "|" + prompt_version; two results share an entry if and only if
\* these keys are equal, which is having the same model and the same
\* prompt_version whenever neither model contains "|".
C16_CompositeGroupsByKey ==
    groups # <<>> =>
        \A i, j \in DOMAIN results :
            LET ki == results[i].model \o <<"|">> \o results[i].prompt_version
                kj == results[j].model \o <<"|">> \o results[j].prompt_version
            IN  /\ SameComboEntry(i, j) <=> (ki = kj)
                /\ SamePair(i, j) => SameComboEntry(i, j)
                /\ (~HasBar(results[i].model) /\ ~HasBar(results[j].model))
                      => (SameComboEntry(i, j) <=> SamePair(i, j))

\* models "gpt-4|a" and "gpt-4" with prompt versions "b" and "a|b" in one entry
C16_Witness ==
    /\ aggregates # <<>>
    /\ Len(results) = 2
    /\ results[1].model # results[2].model
    /\ HasBar(results[1].model) \/ HasBar(results[2].model)
    /\ Len(aggregates[1].by_model_and_prompt_version) = 1
    /\ aggregates[1].by_model_and_prompt_version[1].value.count = 2

\* C17: an empty result list gives three empty mappings, every entry of every
\* grouping has count >= 1, and no statistics are computed over an empty
\* group (no division by zero).
C17_NoZeroCountEntries ==
    /\ mexc # <<>> => mexc[1].type # "ZeroDivisionError"
    /\ groups # <<>> =>
          \A name \in Groupings :
              \A j \in DOMAIN GroupsOf(name) : Len(GroupsOf(name)[j].value) >= 1
    /\ (groups # <<>> /\ results = <<>>) =>
          aggregates = <<[by_model |-> <<>>, by_prompt_version |-> <<>>,
                          by_model_and_prompt_version |-> <<>>]>>
    /\ aggregates # <<>> =>
          \A name \in Groupings :
              \A j \in DOMAIN aggregates[1][name] : aggregates[1][name][j].value.count >= 1

C17_Witness ==
    /\ results = <<>>
    /\ groups # <<>>
    /\ mexc = <<>>
    /\ aggregates # <<>>
    /\ aggregates[1].by_model = <<>>
    /\ aggregates[1].by_prompt_version = <<>>
    /\ aggregates[1].by_model_and_prompt_version = <<>>

\* C19: write_results(results, skipped, aggregates, output_path) writes one
\* document whose results holds one entry per result in order, whose skipped
\* is the skipped list and whose aggregates is the aggregates passed in.
C19_ReporterDocument ==
    (mpc \in {"returned", "crashed"} /\ aggregates # <<>>) =>
        /\ output # <<>>
        /\ Len(output[1].results) = Len(results)
        /\ \A i \in DOMAIN results :
              output[1].results[i] =
                  [id |-> results[i].id, model |-> results[i].model,
                   prompt_version |-> results[i].prompt_version,
                   relevance |-> [score |-> results[i].relevance.score,
                                  reasoning |-> results[i].relevance.reasoning],
                   tone |-> [score |-> results[i].tone.score,
                             reasoning |-> results[i].tone.reasoning]]
        /\ output[1].skipped = skipped
        /\ output[1].aggregates = aggregates[1]

(***************************************************************************)
(* A run of main                                                           *)
(*                                                                         *)
(* Every Example load_examples builds lacks the attribute model, so the    *)
(* first iteration of the loop raises in main.py:55 and no run gets to     *)
(* evaluate_example, compute_aggregates or write_results (NeverEvaluates). *)
(* SpecMain therefore steps through main_load and main_iterate only; the   *)
(* rest of main is explored from the loop on in SpecLoop, on lists of      *)
(* example objects that may carry model and prompt_version, and from       *)
(* compute_aggregates on in SpecAgg.                                       *)
(***************************************************************************)
MainConfigs ==
    {Config(SwapMapping, [p \in {"openai", "anthropic"} |-> JudgeModelOf(p)]),
     Config([p \in {"openai"} |-> "anthropic"], [p \in {"anthropic"} |-> JudgeModelOf(p)])}

EvalNotCalled ==
    /\ example = Example(ID1, TICKET_T, RESPONSE_R)
    /\ epc = "idle"
    /\ response_provider = <<>>
    /\ judge_provider = <<>>
    /\ judge_model = <<>>
    /\ relevance = <<>>
    /\ tone = <<>>
    /\ calls = <<>>
    /\ replies = <<>>
    /\ result = <<>>
    /\ exc = <<>>

InitMain ==
    /\ data \in LoadInputs
    /\ lpc = "start"
    /\ examples = <<>>
    /\ skipped = <<>>
    /\ lexc = <<>>
    /\ config \in MainConfigs
    /\ judge = <<>>
    /\ EvalNotCalled
    /\ mpc = "start"
    /\ cur = 0
    /\ eval_log = <<>>
    /\ results = <<>>
    /\ groups = <<>>
    /\ agg_calls = <<>>
    /\ aggregates = <<>>
    /\ output = <<>>
    /\ exit_status = <<>>
    /\ mexc = <<>>

NextMain ==
    \/ main_load
    \/ main_iterate

SpecMain == InitMain /\ [][NextMain]_vars

\* no run of main gets past the first iteration of its loop
NeverEvaluates ==
    /\ mpc \in {"start", "loop", "crashed", "returned"}
    /\ epc = "idle"
    /\ cur <= 1

\* the loop of main and what follows it, on any non-empty list of examples
TICKET_U == <<"U">>
RunExamples ==
    {FullExample(ID1, TICKET_T, RESPONSE_R, GPT4, V1),
     FullExample(<<"2">>, TICKET_U, RESPONSE_R, CLAUDE3, V2),
     Example(<<"3">>, TICKET_T, RESPONSE_R)}

RubricOf(dimension) == IF dimension = "relevance" THEN RELEVANCE_RUBRIC ELSE TONE_RUBRIC
PromptOf(ex, dimension) == _build_prompt(ex, dimension, RubricOf(dimension))

\* the prompts a run over RunExamples can send
RunPrompts ==
    {PromptOf(ex, dimension) :
        ex \in {e \in RunExamples : HasAttr(e, "model")}, dimension \in {"relevance", "tone"}}

\* what the judge of a run answers to a prompt: a score in 1..5, a score
\* above and one below that range, or a failed call
RunOutcomes ==
    {Reply(build_json(4, "x")), Reply(build_json(MaxScore, "x")), Reply(build_json(0, "x")),
     APIError}

InitLoop ==
    /\ examples \in SeqsUpTo(RunExamples, MaxBatch) \ {<<>>}
    /\ skipped \in SkippedLists
    /\ data = JList(<<>>)
    /\ lpc = "idle"
    /\ lexc = <<>>
    /\ config \in MainConfigs
    /\ judge \in {<<J>> : J \in [RunPrompts -> RunOutcomes]}
    /\ EvalNotCalled
    /\ mpc = "loop"
    /\ cur = 0
    /\ eval_log = <<>>
    /\ results = <<>>
    /\ groups = <<>>
    /\ agg_calls = <<>>
    /\ aggregates = <<>>
    /\ output = <<>>
    /\ exit_status = <<>>
    /\ mexc = <<>>

NextLoop ==
    \/ main_iterate
    \/ evaluate_example_route
    \/ evaluate_example_relevance
    \/ evaluate_example_tone
    \/ main_collect
    \/ main_aggregate
    \/ main_write

SpecLoop == InitLoop /\ [][NextLoop]_vars

(***************************************************************************)
(* Properties of a run (SpecMain)                                          *)
(***************************************************************************)
\* a judge reply that does not parse into a Score, or a failed judge call
JudgeFailed == \E k \in DOMAIN replies : ~_score_with_openai(replies[k]).ok

\* main is over
Finished == mpc \in {"returned", "crashed"}

\* C18: in a run over an array with valid items in which no judge call fails,
\* compute_aggregates is handed one EvalResult per valid item, in input order,
\* with the id, model and prompt_version of that item, and the skip records
\* handed on are the loader's, with increasing indices.
C18_OutputOrder ==
    (Finished /\ lpc = "done" /\ ~JudgeFailed /\ Positions(IsValidItem) # <<>>) =>
        LET valid == Positions(IsValidItem)
        IN  /\ groups # <<>>
            /\ Len(results) = Len(valid)
            /\ \A k \in DOMAIN results :
                  /\ results[k].id = data.items[valid[k]].m["id"].s
                  /\ results[k].model = data.items[valid[k]].m["model"].s
                  /\ results[k].prompt_version = data.items[valid[k]].m["prompt_version"].s
            /\ \A j, k \in DOMAIN skipped : j < k => skipped[j].index < skipped[k].index

\* C20: the output document exists only after the input loaded as an array and
\* every iteration of the loop ended with a result; a non-array input ends the
\* run with no iteration and no document; a failed iteration is the last one,
\* ends the run and leaves no document.
C20_NoPartialOutput ==
    /\ output # <<>> =>
          /\ lpc = "done"
          /\ data.type = "list"
          /\ Len(eval_log) = Len(examples)
          /\ \A k \in DOMAIN eval_log : eval_log[k] = "returned"
    /\ (lpc # "start" /\ data.type # "list") =>
          /\ mpc = "crashed"
          /\ cur = 0
          /\ eval_log = <<>>
          /\ calls = <<>>
          /\ output = <<>>
    /\ \A k \in DOMAIN eval_log :
          eval_log[k] = "raised" =>
              /\ k = Len(eval_log)
              /\ cur = k
              /\ mpc = "crashed"
              /\ output = <<>>

\* a batch of two items halted in its first iteration
C20_Witness ==
    /\ data = JList(<<ItemA, ItemB>>)
    /\ Len(examples) = 2
    /\ mpc = "crashed"
    /\ eval_log = <<"raised">>
    /\ cur = 1
    /\ output = <<>>

(***************************************************************************)
(* The two scoring functions on built replies                              *)
(***************************************************************************)
\* the backend has answered; the scoring function has yet to parse the answer
InitScore ==
    /\ judge_provider \in {<<"openai">>, <<"anthropic">>}
    /\ replies \in {<<o>> : o \in BuiltReplies}
    /\ epc = "scoring"
    /\ example = Example(ID1, TICKET_T, RESPONSE_R)
    /\ config = Config(<<>>, <<>>)
    /\ judge = <<>>
    /\ response_provider = <<>>
    /\ judge_model = <<>>
    /\ relevance = <<>>
    /\ tone = <<>>
    /\ calls = <<>>
    /\ result = <<>>
    /\ exc = <<>>
    /\ LoaderIdle
    /\ MainIdle

\* evaluator.py:103-105
score_with_openai_parse ==
    /\ epc = "scoring"
    /\ judge_provider = <<"openai">>
    /\ LET r == _score_with_openai(replies[1])
       IN  IF r.ok
           THEN /\ relevance' = r.v
                /\ epc' = "scored"
                /\ UNCHANGED exc
           ELSE /\ Propagate(r)
                /\ UNCHANGED relevance
    /\ UNCHANGED <<example, config, judge, response_provider, judge_provider, judge_model,
                   tone, calls, replies, result, lvars, mvars>>

\* evaluator.py:121-123
score_with_anthropic_parse ==
    /\ epc = "scoring"
    /\ judge_provider = <<"anthropic">>
    /\ LET r == _score_with_anthropic(replies[1])
       IN  IF r.ok
           THEN /\ relevance' = r.v
                /\ epc' = "scored"
                /\ UNCHANGED exc
           ELSE /\ Propagate(r)
                /\ UNCHANGED relevance
    /\ UNCHANGED <<example, config, judge, response_provider, judge_provider, judge_model,
                   tone, calls, replies, result, lvars, mvars>>

NextScore ==
    \/ score_with_openai_parse
    \/ score_with_anthropic_parse

SpecScore == InitScore /\ [][NextScore]_vars

\* C21: for every integer s in 1..5 and every reasoning x, scoring the reply
\* {"score": s, "reasoning": x} yields Score(s, x), on the OpenAI-style and
\* on the Anthropic-style backend.
C21_ScoreRoundTrip ==
    \A s \in 1..5 : \A x \in ReasoningTexts :
        (epc # "scoring" /\ replies = <<Reply(build_json(s, x))>>) =>
            /\ epc = "scored"
            /\ exc = <<>>
            /\ relevance = <<Score(PyVal("int", s, ""), PyVal("str", 0, x))>>

C21_Witness ==
    /\ judge_provider = <<"openai">>
    /\ replies = <<Reply(build_json(4, "x"))>>
    /\ relevance = <<Score(PyVal("int", 4, ""), PyVal("str", 0, "x"))>>

(***************************************************************************)
(* Properties of the loop of main (SpecLoop)                               *)
(***************************************************************************)
\* the integer n, if the judge answers the prompt of (ex, dimension) with the
\* object {"score": n, "reasoning": "x"}
RepliedScores(ex, dimension) ==
    {n \in ScoreValues : judge[1][PromptOf(ex, dimension)] = Reply(build_json(n, "x"))}

\* every iteration so far has ended with a result
AllReturned == \A k \in DOMAIN eval_log : eval_log[k] = "returned"

\* C22: an integer score of the judge's reply, inside 1..5 or not, is not
\* rejected, and is the score of the Score and of the EvalResult; the min and the
\* max of every aggregate entry are the smallest and the largest of the scores
\* the judge replied for the results of the entry.
C22_NoRangeClamping ==
    /\ (epc = "raised" /\ judge_model # <<>>) => RepliedScores(example, calls[Len(calls)].dimension) = {}
    /\ \A dim \in Dimensions :
          /\ (dim = "relevance" /\ relevance # <<>>) =>
                \A n \in RepliedScores(example, dim) : relevance[1].score = PyVal("int", n, "")
          /\ (dim = "tone" /\ tone # <<>>) =>
                \A n \in RepliedScores(example, dim) : tone[1].score = PyVal("int", n, "")
          /\ \A k \in DOMAIN results :
                \A n \in RepliedScores(examples[k], dim) : results[k][dim].score = PyVal("int", n, "")
    /\ aggregates # <<>> =>
          \A name \in Groupings : \A j \in DOMAIN aggregates[1][name] : \A dim \in Dimensions :
              LET e == aggregates[1][name][j]
                  members == MembersOf(name, e.key)
                  replied == UNION {RepliedScores(examples[members[k]], dim) : k \in DOMAIN members}
              IN  /\ e.value[dim].min.n \in replied
                  /\ e.value[dim].max.n \in replied
                  /\ \A n \in replied : e.value[dim].min.n <= n /\ n <= e.value[dim].max.n

\* a score above 5 and a score below 1 in the results and in the aggregates
C22_Witness ==
    /\ aggregates # <<>>
    /\ results # <<>>
    /\ results[1].relevance.score = PyVal("int", MaxScore, "")
    /\ results[1].tone.score = PyVal("int", 0, "")
    /\ \E j \in DOMAIN aggregates[1].by_model :
          /\ aggregates[1].by_model[j].value.relevance.max = PyVal("int", MaxScore, "")
          /\ aggregates[1].by_model[j].value.tone.min = PyVal("int", 0, "")

\* C24: the judge calls are made example by example in the order of the list,
\* the relevance call of an example and then its tone call, each answered before
\* the next is made; a run whose iterations all succeed makes two calls per
\* example.
C24_SequentialEvaluation ==
    /\ Len(replies) = Len(calls)
    /\ Len(calls) <= 2 * cur
    /\ cur >= 1 => Len(calls) >= 2 * (cur - 1)
    /\ \A i \in DOMAIN calls :
          LET k == (i + 1) \div 2
              dimension == IF i % 2 = 1 THEN "relevance" ELSE "tone"
          IN  /\ k <= cur
              /\ calls[i].dimension = dimension
              /\ calls[i].prompt = PromptOf(examples[k], dimension)
    /\ (AllReturned /\ Len(eval_log) = Len(examples)) => Len(calls) = 2 * Len(examples)

C24_Witness ==
    /\ Len(examples) = 2
    /\ examples[1].ticket # examples[2].ticket
    /\ AllReturned
    /\ Len(eval_log) = 2
    /\ Len(calls) = 4
    /\ calls[1].prompt # calls[3].prompt

(***************************************************************************)
(* Further properties of evaluate_example (SpecEval)                       *)
(***************************************************************************)
\* C23: a config whose judge_mapping names a provider without an entry in
\* judge_models loads; evaluate_example raises without any judge call when the
\* model has no known prefix, when judge_mapping has no entry for its provider,
\* or when judge_models has no entry for the mapped judge provider.
C23_RoutingFailsAtEvaluation ==
    /\ load_config(YamlDoc(config.judge_mapping, config.judge_models)) = Returns(config)
    /\ (epc # "start" /\ HasAttr(example, "model")) =>
          LET m == example.model
              known == StartsWith(m, GPT_) \/ StartsWith(m, O1_) \/ StartsWith(m, CLAUDE_)
              provider == IF StartsWith(m, CLAUDE_) THEN "anthropic" ELSE "openai"
              unmapped == provider \notin DOMAIN config.judge_mapping
              unmodelled == config.judge_mapping[provider] \notin DOMAIN config.judge_models
          IN  /\ ~known =>
                    /\ epc = "raised" /\ exc # <<>> /\ exc[1].type = "ValueError"
                    /\ calls = <<>> /\ replies = <<>>
              /\ (known /\ (unmapped \/ unmodelled)) =>
                    /\ epc = "raised" /\ exc # <<>> /\ exc[1].type = "KeyError"
                    /\ calls = <<>> /\ replies = <<>>

\* a loaded config that maps openai to a provider without a judge model
C23_Witness ==
    /\ HasAttr(example, "model")
    /\ response_provider = <<"openai">>
    /\ judge_provider # <<>>
    /\ judge_provider[1] \notin DOMAIN config.judge_models
    /\ load_config(YamlDoc(config.judge_mapping, config.judge_models)).ok
    /\ epc = "raised"
    /\ exc[1].type = "KeyError"
    /\ calls = <<>>

\* C28: the OpenAI backend is invoked if and only if the routed judge
\* provider is "openai"; for any other judge provider that has an entry in
\* judge_models the Anthropic backend is invoked with that entry, and routing
\* does not fail.
C28_TwoWayDispatch ==
    /\ \A i \in DOMAIN calls :
          /\ judge_provider # <<>>
          /\ calls[i].backend = "openai" <=> judge_provider[1] = "openai"
          /\ calls[i].backend = "anthropic" <=> judge_provider[1] # "openai"
          /\ calls[i].model = config.judge_models[judge_provider[1]]
    /\ (judge_provider # <<>> /\ judge_provider[1] \in DOMAIN config.judge_models) =>
          /\ judge_model = <<config.judge_models[judge_provider[1]]>>
          /\ calls = <<>> => epc = "routed"

\* a judge provider that is neither "openai" nor "anthropic" judged on the
\* Anthropic backend
C28_Witness ==
    /\ judge_provider = <<"other">>
    /\ epc = "returned"
    /\ result # <<>>
    /\ Len(calls) = 2
    /\ \A i \in DOMAIN calls :
          calls[i].backend = "anthropic" /\ calls[i].model = config.judge_models["other"]

\* the example with other values of id, model and prompt_version
Variants(ex) ==
    {[ex EXCEPT !.id = i, !.model = m, !.prompt_version = pv] :
        i \in {ID1, <<"2">>}, m \in ModelNames, pv \in {V1, <<"v", "2">>}}

\* C29: the prompt sent to the judge is the fixed template filled with the
\* dimension, the ticket, the response and the rubric; an example that differs
\* only in id, model or prompt_version gives the same relevance prompt and the
\* same tone prompt.
C29_BlindJudging ==
    \A i \in DOMAIN calls :
        LET dimension == calls[i].dimension
            rubric == IF dimension = "relevance" THEN RELEVANCE_RUBRIC ELSE TONE_RUBRIC
        IN  /\ dimension \in {"relevance", "tone"}
            /\ calls[i].prompt =
                  <<"You are evaluating a support bot response for ", dimension, ".",
                    "TICKET:", example.ticket, "RESPONSE:", example.response, rubric,
                    "Respond with JSON only: {\"score\": <1-5>, \"reasoning\": \"<brief explanation>\"}">>
            /\ HasAttr(example, "prompt_version") =>
                  \A other \in Variants(example) :
                      _build_prompt(other, dimension, rubric) = calls[i].prompt

C29_Witness ==
    /\ Len(calls) = 2
    /\ calls[1].dimension = "relevance"
    /\ calls[2].dimension = "tone"
    /\ calls[1].prompt # calls[2].prompt
    /\ HasAttr(example, "prompt_version")
    /\ example.model = CLAUDE_ \o <<"4">>

(***************************************************************************)
(* Further properties of a run (SpecMain)                                  *)
(***************************************************************************)
\* C27: a run whose input is an array with at least one valid item and whose
\* judge calls all return well-formed scores ends with the aggregates computed,
\* one output document holding the results, the skip records and the aggregates,
\* and exit status 0.
C27_SuccessfulRunsComplete ==
    (Finished /\ lpc = "done" /\ Positions(IsValidItem) # <<>> /\ ~JudgeFailed) =>
        /\ mexc = <<>>
        /\ exit_status = <<0>>
        /\ aggregates # <<>>
        /\ output # <<>>
        /\ Len(output[1].results) = Len(results)
        /\ output[1].skipped = skipped
        /\ output[1].aggregates = aggregates[1]

\* C30: a run whose input is an array without any valid item returns exit
\* status 1 and makes no judge call, computes no aggregates and writes no
\* output document.
C30_NoValidExampleEndsEarly ==
    (Finished /\ lpc = "done" /\ Positions(IsValidItem) = <<>>) =>
        /\ mexc = <<>>
        /\ exit_status = <<1>>
        /\ cur = 0
        /\ calls = <<>>
        /\ groups = <<>>
        /\ aggregates = <<>>
        /\ output = <<>>

(***************************************************************************)
(* compute_aggregates called several times in one process                  *)
(***************************************************************************)
ReaggPool ==
    {EvalResult(<<"1">>, GPT4, V1, IntScore(4), IntScore(5)),
     EvalResult(<<"2">>, GPT4, V1, IntScore(3), IntScore(4)),
     EvalResult(<<"3">>, CLAUDE3, V2, IntScore(5), IntScore(5))}

ReaggInputs == SeqsUpTo(ReaggPool, MaxResults)

InitReagg ==
    /\ results \in ReaggInputs
    /\ skipped = <<>>
    /\ mpc = "aggregate"
    /\ cur = 0
    /\ eval_log = <<>>
    /\ groups = <<>>
    /\ agg_calls = <<>>
    /\ aggregates = <<>>
    /\ output = <<>>
    /\ exit_status = <<>>
    /\ mexc = <<>>
    /\ data = JList(<<>>)
    /\ lpc = "idle"
    /\ examples = <<>>
    /\ lexc = <<>>
    /\ EvalIdle

\* the caller holds another list of results and is about to call again
another_results_list ==
    /\ mpc = "write"
    /\ Len(agg_calls) < MaxCalls
    /\ results' \in ReaggInputs
    /\ mpc' = "aggregate"
    /\ UNCHANGED <<evars, lvars, cur, eval_log, groups, agg_calls, aggregates, output,
                   exit_status, mexc>>

NextReagg ==
    \/ main_aggregate
    \/ another_results_list

SpecReagg == InitReagg /\ [][NextReagg]_vars

\* C26: a call of compute_aggregates leaves its argument as it was, and what
\* it returns is determined by that argument alone, whatever was aggregated
\* before: every entry counts the results of the current list that have its
\* key, and the output is that of a first call on the same list.
C26_ReadOnlyNotIncremental ==
    (mpc = "write") =>
        /\ agg_calls # <<>>
        /\ agg_calls[Len(agg_calls)] = results
        /\ aggregates = compute_aggregates(results).v
        /\ \A name \in Groupings :
              /\ Keys(aggregates[1][name]) = {KeyIn(name, results[i]) : i \in DOMAIN results}
              /\ \A j \in DOMAIN aggregates[1][name] :
                    aggregates[1][name][j].value.count =
                        Len(MembersOf(name, aggregates[1][name][j].key))

\* a second call, on another list than the first
C26_Witness ==
    /\ mpc = "write"
    /\ Len(agg_calls) = 2
    /\ agg_calls[1] # <<>>
    /\ agg_calls[2] # <<>>
    /\ agg_calls[1] # agg_calls[2]
    /\ aggregates = compute_aggregates(agg_calls[2]).v
    /\ aggregates # compute_aggregates(agg_calls[1]).v

(***************************************************************************)
(* evaluate_example with its two scoring statements in any order           *)
(***************************************************************************)
OrderExamples ==
    {FullExample(ID1, TICKET_T, RESPONSE_R, GPT4, V1),
     FullExample(ID1, TICKET_U, RESPONSE_R, CLAUDE3, V2)}

OrderOutcomes == Outcomes \cup RunOutcomes

InitOrder ==
    /\ example \in OrderExamples
    /\ config \in MainConfigs
    /\ judge \in {<<J>> : J \in [{PromptOf(example, "relevance"), PromptOf(example, "tone")}
                                    -> OrderOutcomes]}
    /\ epc = "start"
    /\ response_provider = <<>>
    /\ judge_provider = <<>>
    /\ judge_model = <<>>
    /\ relevance = <<>>
    /\ tone = <<>>
    /\ calls = <<>>
    /\ replies = <<>>
    /\ result = <<>>
    /\ exc = <<>>
    /\ LoaderIdle
    /\ MainIdle

Sent(dimension) == \E i \in DOMAIN calls : calls[i].dimension = dimension
SlotOf(dimension) == IF dimension = "relevance" THEN relevance ELSE tone
Other(dimension) == IF dimension = "relevance" THEN "tone" ELSE "relevance"

\* evaluator.py:58-59, 63-64: the request of one scoring statement leaves,
\* whichever of the two statements comes first
dimension_send(dimension) ==
    /\ epc \in {"routed", "any_order"}
    /\ ~Sent(dimension)
    /\ calls' = Append(calls, JudgeCall(dimension, RubricOf(dimension)))
    /\ epc' = "any_order"
    /\ UNCHANGED <<example, config, judge, response_provider, judge_provider, judge_model,
                   relevance, tone, replies, result, exc, lvars, mvars>>

\* the Score bound to the name of the statement that finishes first
dimension_receive_ArrivalOrder(dimension) ==
    /\ epc = "any_order"
    /\ Sent(dimension)
    /\ SlotOf(dimension) = <<>>
    /\ \E o \in JudgeOutcomes(JudgeCall(dimension, RubricOf(dimension))) :
        LET r == JudgeScore(o)
            first == relevance = <<>> /\ tone = <<>>
            rel == IF first THEN r.v ELSE relevance
            ton == IF first THEN tone ELSE r.v
        IN  /\ replies' = Append(replies, o)
            /\ IF ~r.ok
               THEN /\ Propagate(r)
                    /\ UNCHANGED <<relevance, tone, result>>
               ELSE /\ relevance' = rel
                    /\ tone' = ton
                    /\ IF first
                       THEN UNCHANGED <<epc, exc, result>>
                       ELSE /\ result' = <<EvalResult(example.id, example.model,
                                                      example.prompt_version,
                                                      rel[1], ton[1])>>
                            /\ epc' = "returned"
                            /\ UNCHANGED exc
    /\ UNCHANGED <<example, config, judge, response_provider, judge_provider, judge_model,
                   calls, lvars, mvars>>

\* evaluator.py:58-59, 63-64, 66-72: one scoring statement finishes and binds
\* its own name; the EvalResult is built once both names are bound
dimension_receive(dimension) ==
    /\ epc = "any_order"
    /\ Sent(dimension)
    /\ SlotOf(dimension) = <<>>
    /\ \E o \in JudgeOutcomes(JudgeCall(dimension, RubricOf(dimension))) :
        LET r == JudgeScore(o)
            rel == IF dimension = "relevance" THEN r.v ELSE relevance
            ton == IF dimension = "tone" THEN r.v ELSE tone
        IN  /\ replies' = Append(replies, o)
            /\ IF ~r.ok
               THEN /\ Propagate(r)
                    /\ UNCHANGED <<relevance, tone, result>>
               ELSE /\ relevance' = rel
                    /\ tone' = ton
                    /\ IF SlotOf(Other(dimension)) = <<>>
                       THEN UNCHANGED <<epc, exc, result>>
                       ELSE /\ result' = <<EvalResult(example.id, example.model,
                                                      example.prompt_version,
                                                      rel[1], ton[1])>>
                            /\ epc' = "returned"
                            /\ UNCHANGED exc
    /\ UNCHANGED <<example, config, judge, response_provider, judge_provider, judge_model,
                   calls, lvars, mvars>>

NextOrder ==
    \/ evaluate_example_route
    \/ evaluate_example_relevance
    \/ evaluate_example_tone
    \/ \E dimension \in {"relevance", "tone"} : dimension_send(dimension)
    \/ \E dimension \in {"relevance", "tone"} : dimension_receive(dimension)

SpecOrder == InitOrder /\ [][NextOrder]_vars

\* the Score the judge's reply to the prompt of a dimension parses to
ScoreOfReplyTo(dimension) == JudgeScore(judge[1][PromptOf(example, dimension)])

\* what relevance-then-tone returns when both replies parse
SequentialResult ==
    EvalResult(example.id, example.model, example.prompt_version,
               ScoreOfReplyTo("relevance").v[1], ScoreOfReplyTo("tone").v[1])

\* C25: with a judge whose reply depends only on the prompt it is sent, every
\* order of the two scoring statements (relevance first, tone first, or both
\* requests in flight at once) binds relevance to the Score parsed from the
\* reply to the relevance prompt and tone to the Score parsed from the reply
\* to the tone prompt, returns the EvalResult that relevance-then-tone
\* returns, and raises after routing only if one of the two replies does not
\* parse to a Score.
C25_DimensionOrderIndependence ==
    (judge_model # <<>>) =>
        /\ \A i \in DOMAIN calls : calls[i].prompt = PromptOf(example, calls[i].dimension)
        /\ (relevance # <<>>) =>
              ScoreOfReplyTo("relevance").ok /\ relevance = ScoreOfReplyTo("relevance").v
        /\ (tone # <<>>) =>
              ScoreOfReplyTo("tone").ok /\ tone = ScoreOfReplyTo("tone").v
        /\ (epc = "returned") =>
              /\ ScoreOfReplyTo("relevance").ok
              /\ ScoreOfReplyTo("tone").ok
              /\ result = <<SequentialResult>>
        /\ (epc = "raised") =>
              ~ScoreOfReplyTo("relevance").ok \/ ~ScoreOfReplyTo("tone").ok

\* both requests in flight, tone sent first and the relevance reply first to
\* arrive, the two Scores different
C25_Witness ==
    /\ epc = "returned"
    /\ Len(calls) = 2
    /\ calls[1].dimension = "tone"
    /\ replies[1] = judge[1][PromptOf(example, "relevance")]
    /\ replies[1] # replies[2]
    /\ result[1].relevance # result[1].tone
    /\ result = <<SequentialResult>>

====
